---- MODULE Spec2Model ----
(***************************************************************************)
(* Model of the synthetic transaction-history generator                    *)
(* (src/src/lakebase_setup/data_generator/data_generator.py,               *)
(* class TransactionGenerator).                                            *)
(*                                                                         *)
(* Dates are day ordinals counted from 2021-01-01 (ordinal 0, a Friday).   *)
(* Timestamps are minutes: ordinal * 1440 + hour * 60 + minute.            *)
(* Real-valued quantities are kept as integers in fixed units: table       *)
(* multipliers in tenths, random.uniform variates in hundredths.           *)
(*                                                                         *)
(* The two seeded generators of the module (random, numpy.random) are      *)
(* modelled as small multiplicative congruential generators whose state    *)
(* is part of the model state; the seed is chosen in Init.  Every draw of  *)
(* the code is a function of the generator state, so one behaviour of the  *)
(* model is one run of the script for one seed and one start date, up to   *)
(* the summary report, whose category order follows the string hashes of   *)
(* the interpreter process and is a free choice of the model.              *)
(*                                                                         *)
(* The second half of the module models the servers of the repository at   *)
(* the granularity of their database statements and awaited HTTP calls:    *)
(* the routers of app/smart_stock/server (SpecApp), its demo-reset job     *)
(* route (SpecJobs) and the order API of src/server (SpecOrders).  Each    *)
(* specification moves the variables of one program and holds the others   *)
(* fixed.                                                                  *)
(***************************************************************************)
EXTENDS Integers, Sequences, FiniteSets, TLC

(***************************************************************************)
(* Bounds of the model.                                                    *)
(***************************************************************************)
\* simulated days per run (the script uses 3*365)
TotalDays == 12
\* largest value drawn for the Poisson transaction count of a day
MaxTxPerDay == 3
\* number of seeds explored
NumSeeds == 40
\* number of distinct random suffixes (the script has 36^5)
SuffixSpace == 3
\* simulated days per run of the long-horizon specification: the periodic
\* cleanup of the reorder history first drops an entry on day index 60
LongDays == 62
\* number of seeds explored by the long-horizon specification
LongSeeds == 80

(***************************************************************************)
(* Calendar: datetime arithmetic on day ordinals.                          *)
(***************************************************************************)
IsLeap(y) == (y % 4 = 0 /\ y % 100 # 0) \/ y % 400 = 0

DaysInYear(y) == IF IsLeap(y) THEN 366 ELSE 365

DaysInMonth(y, m) ==
    IF m = 2 THEN (IF IsLeap(y) THEN 29 ELSE 28)
    ELSE IF m \in {4, 6, 9, 11} THEN 30 ELSE 31

RECURSIVE YearFrom(_, _)
YearFrom(y, n) ==
    IF n < DaysInYear(y) THEN [year |-> y, yday |-> n]
    ELSE YearFrom(y + 1, n - DaysInYear(y))

RECURSIVE MonthFrom(_, _, _)
MonthFrom(y, m, n) ==
    IF n < DaysInMonth(y, m) THEN [month |-> m, day |-> n + 1]
    ELSE MonthFrom(y, m + 1, n - DaysInMonth(y, m))

\* date.year, date.month, date.day of an ordinal
Civil(d) ==
    LET yy == YearFrom(2021, d)
        mm == MonthFrom(yy.year, 1, yy.yday)
    IN  [year |-> yy.year, month |-> mm.month, day |-> mm.day]

RECURSIVE DaysBeforeYear(_)
DaysBeforeYear(y) == IF y <= 2021 THEN 0 ELSE DaysBeforeYear(y - 1) + DaysInYear(y - 1)

RECURSIVE DaysBeforeMonth(_, _)
DaysBeforeMonth(y, m) == IF m <= 1 THEN 0 ELSE DaysBeforeMonth(y, m - 1) + DaysInMonth(y, m - 1)

\* datetime(y, m, d) as an ordinal
Ordinal(y, m, d) == DaysBeforeYear(y) + DaysBeforeMonth(y, m) + (d - 1)

\* date.weekday(): Monday = 0 .. Sunday = 6
Weekday(d) == (d + 4) % 7

\* date.strftime("%y%m%d")
DateStr(d) == LET c == Civil(d) IN <<c.year % 100, c.month, c.day>>

\* date.replace(hour=h, minute=m, second=0, microsecond=0)
Timestamp(d, h, m) == d * 1440 + h * 60 + m

\* calendar date of a timestamp
DateOf(ts) == ts \div 1440

Max(a, b) == IF a >= b THEN a ELSE b

Min(a, b) == IF a <= b THEN a ELSE b

(***************************************************************************)
(* Pseudo-random generators.                                               *)
(***************************************************************************)
\* one step of the generator (Lehmer generator modulo the prime 65537)
NextRandom(r) == (r * 75) % 65537

RECURSIVE Skip(_, _)
\* state of the generator after k further draws
Skip(r, k) == IF k = 0 THEN r ELSE Skip(NextRandom(r), k - 1)

\* generator state after random.seed(s)
Seeded(s) == Skip((s * 7919) % 65537, 3)

\* random.randint(a, b): an integer in a..b
RandInt(r, a, b) == a + (r % (b - a + 1))

\* random.uniform(a, b) in hundredths (the end point b included)
Uniform(r, a, b) == a + (r % (b - a + 1))

\* random.random() in hundredths, 0..99
Random(r) == r % 100

RECURSIVE PickIndex(_, _, _)
PickIndex(weights, x, k) ==
    IF k >= Len(weights) \/ x < weights[k] THEN k
    ELSE PickIndex(weights, x - weights[k], k + 1)

RECURSIVE SumSeq(_)
SumSeq(s) == IF s = <<>> THEN 0 ELSE Head(s) + SumSeq(Tail(s))

\* random.choices(options, weights=weights)[0]
Choices(r, options, weights) == options[PickIndex(weights, r % SumSeq(weights), 1)]

\* random.choice(options)
Choice(r, options) == options[1 + (r % Len(options))]

(***************************************************************************)
(* Catalog: a sub-catalog of generate_products_data (product ids are the   *)
(* 1-based positions in the script's list).                                *)
(***************************************************************************)
ProductIds == <<2, 7, 10>>

products_data ==
    [p \in {2, 7, 10} |->
        CASE p = 2  -> [sku |-> "MTR-500-HB-01",  category |-> "Motors",    reorder_level |-> 20]
          [] p = 7  -> [sku |-> "BAT-52-20-01",   category |-> "Batteries", reorder_level |-> 15]
          [] p = 10 -> [sku |-> "FRM-CBN-MTB-01", category |-> "Frames",    reorder_level |-> 8]]

WarehouseIds == <<1, 2, 3>>

Products == {ProductIds[k] : k \in 1..Len(ProductIds)}

Warehouses == {WarehouseIds[k] : k \in 1..Len(WarehouseIds)}

Pairs == Products \X Warehouses

\* (product, warehouse) pairs in the order of the nested loops of the script
PairSeq ==
    [k \in 1..(Len(ProductIds) * Len(WarehouseIds)) |->
        <<ProductIds[((k - 1) \div Len(WarehouseIds)) + 1],
          WarehouseIds[((k - 1) % Len(WarehouseIds)) + 1]>>]

ReorderLevel(p) == products_data[p].reorder_level

\* product_categories: base_demand and bulk_order_frequency in tenths
CategorySeq == <<"Motors", "Batteries", "Frames">>

product_categories ==
    [c \in {"Motors", "Batteries", "Frames"} |->
        CASE c = "Motors"    -> [base_demand |-> 8, bulk_order_frequency |-> 7, products |-> <<2>>]
          [] c = "Batteries" -> [base_demand |-> 9, bulk_order_frequency |-> 8, products |-> <<7>>]
          [] c = "Frames"    -> [base_demand |-> 6, bulk_order_frequency |-> 6, products |-> <<10>>]]

TypeSeq == <<"inbound", "sale", "adjustment">>

\* transaction_types: frequency in thousandths, status weights in hundredths
transaction_types ==
    [t \in {"inbound", "sale", "adjustment"} |->
        CASE t = "inbound" ->
                [frequency |-> 200, quantity_range |-> <<5, 80>>,
                 status_options |-> <<"delivered", "shipped", "processing", "confirmed", "pending">>,
                 status_weights |-> <<70, 15, 10, 3, 2>>]
          [] t = "sale" ->
                [frequency |-> 750, quantity_range |-> <<1, 18>>,
                 status_options |-> <<"delivered", "processing", "confirmed", "pending">>,
                 status_weights |-> <<85, 10, 3, 2>>]
          [] t = "adjustment" ->
                [frequency |-> 50, quantity_range |-> <<0 - 10, 10>>,
                 status_options |-> <<"delivered", "confirmed">>,
                 status_weights |-> <<95, 5>>]]

\* monthly multipliers in tenths
seasonal_patterns ==
    [m \in 1..12 |-> <<6, 7, 9, 12, 14, 15, 13, 11, 10, 8, 6, 5>>[m]]

\* yearly multipliers in tenths
growth_trends ==
    [y \in 2022..2025 |-> CASE y = 2022 -> 7 [] y = 2023 -> 9 [] y = 2024 -> 10 [] y = 2025 -> 11]

\* day-of-week multipliers in tenths
dow_patterns ==
    [w \in 0..6 |-> <<3, 8, 10, 10, 12, 4, 2>>[w + 1]]

(***************************************************************************)
(* Pure methods of TransactionGenerator.                                   *)
(***************************************************************************)
\* get_seasonal_multiplier
get_seasonal_multiplier(date) == seasonal_patterns[Civil(date).month]

\* get_growth_multiplier raises KeyError for a year outside growth_trends
GrowthDefined(date) == Civil(date).year \in DOMAIN growth_trends

get_growth_multiplier(date) == growth_trends[Civil(date).year]

\* get_dow_multiplier
get_dow_multiplier(date) == dow_patterns[Weekday(date)]

\* int(150 * daily_activity)
BaseTransactions(date) ==
    (150 * get_seasonal_multiplier(date) * get_growth_multiplier(date)
         * get_dow_multiplier(date)) \div 1000

\* np.random.poisson(mean), its support cut at MaxTxPerDay
Poisson(r, mean) == IF mean = 0 THEN 0 ELSE r % (MaxTxPerDay + 1)

\* capacity multiplier range of a warehouse, in hundredths
CapacityRange(w) == IF w = 1 THEN <<100, 140>> ELSE IF w = 2 THEN <<80, 120>> ELSE <<60, 100>>

\* initial stock of one pair: max(int(reorder_level * u1 * u2), reorder_level)
InitialStock(p, w, r) ==
    LET base_stock == ReorderLevel(p) * Uniform(Skip(r, 1), 120, 220)
        multiplier == Uniform(Skip(r, 2), CapacityRange(w)[1], CapacityRange(w)[2])
        initial_stock == (base_stock * multiplier) \div 10000
    IN  Max(initial_stock, ReorderLevel(p))

\* initialize_inventory_levels: two draws per pair, in loop order
initialize_inventory_levels(r) ==
    [key \in Pairs |->
        LET k == CHOOSE j \in 1..Len(PairSeq) : PairSeq[j] = key
        IN  InitialStock(key[1], key[2], Skip(r, 2 * (k - 1)))]

\* get_current_inventory
get_current_inventory(levels, key) == IF key \in DOMAIN levels THEN levels[key] ELSE 0

\* update_inventory keyed by the product alone
update_inventory_whole_product(levels, key, quantity_change) ==
    [k \in DOMAIN levels |->
        IF k[1] = key[1] THEN Max(0, levels[k] + quantity_change) ELSE levels[k]]

\* update_inventory without the floor at zero
update_inventory_unclamped(levels, key, quantity_change) ==
    [levels EXCEPT ![key] = get_current_inventory(levels, key) + quantity_change]

\* update_inventory: new_level = max(0, current_level + quantity_change)
update_inventory(levels, key, quantity_change) ==
    [levels EXCEPT ![key] = Max(0, get_current_inventory(levels, key) + quantity_change)]

\* the snapshot key f"P{product_id}_W{warehouse_id}"
SnapshotKey(key) == <<"P", key[1], "W", key[2]>>

\* record_inventory_snapshot leaving out the pairs that are out of stock
record_inventory_snapshot_in_stock_only(history, date, levels) ==
    Append(history,
           [date |-> date,
            inventory_levels |->
                [k \in {SnapshotKey(key) : key \in {p \in DOMAIN levels : levels[p] > 0}} |->
                    levels[<<k[2], k[4]>>]]])

\* record_inventory_snapshot keeping only the latest snapshot
record_inventory_snapshot_overwrite(history, date, levels) ==
    <<[date |-> date,
       inventory_levels |->
           [k \in {SnapshotKey(key) : key \in DOMAIN levels} |-> levels[<<k[2], k[4]>>]]]>>

\* record_inventory_snapshot appending a reference to the ledger instead of a
\* copy: every snapshot recorded earlier shows the ledger of today
record_inventory_snapshot_by_reference(history, date, levels) ==
    LET shared == [k \in {SnapshotKey(key) : key \in DOMAIN levels} |->
                      levels[<<k[2], k[4]>>]]
    IN  [k \in 1..(Len(history) + 1) |->
            [date |-> IF k <= Len(history) THEN history[k].date ELSE date,
             inventory_levels |-> shared]]

\* record_inventory_snapshot: a copy of the ledger under string keys, appended
record_inventory_snapshot(history, date, levels) ==
    Append(history,
           [date |-> date,
            inventory_levels |->
                [k \in {SnapshotKey(key) : key \in DOMAIN levels} |->
                    levels[<<k[2], k[4]>>]]])

TypePrefix(t) == CASE t = "inbound" -> "INB" [] t = "sale" -> "SAL" [] t = "adjustment" -> "ADJ"

\* generate_transaction_number: prefix, date and random suffix; the sequence
\* argument is not used
generate_transaction_number(t, date, sequence, r) ==
    <<TypePrefix(t), DateStr(date), RandInt(r, 0, SuffixSpace - 1)>>

\* select_product_for_category
select_product_for_category(category, r) == Choice(r, product_categories[category].products)

\* select_warehouse
select_warehouse(p, r) ==
    IF p \in {2, 6, 11, 15, 20} THEN Choices(r, <<1, 2>>, <<3, 7>>)
    ELSE IF p \in {3, 7, 12, 16} THEN Choices(r, <<1, 3>>, <<2, 8>>)
    ELSE Choices(r, <<1, 2, 3>>, <<6, 3, 1>>)

\* generate_quantity, inbound branch (three draws)
InboundQuantity(category, current_inventory, reorder_level, r) ==
    LET m1 == IF product_categories[category].bulk_order_frequency > 7
              THEN Uniform(Skip(r, 1), 90, 140)
              ELSE Uniform(Skip(r, 1), 70, 120)
        m2 == IF 10 * current_inventory < 3 * reorder_level THEN Uniform(Skip(r, 2), 100, 140)
              ELSE IF 10 * current_inventory < 8 * reorder_level THEN Uniform(Skip(r, 2), 80, 120)
              ELSE IF 10 * current_inventory < 12 * reorder_level THEN Uniform(Skip(r, 2), 60, 90)
              ELSE Uniform(Skip(r, 2), 10, 30)
        x  == Uniform(Skip(r, 3), 500, 8000)
    IN  Max(3, (x * m1 * m2) \div 1000000)

\* the cap max_sale taken from the quantity range alone, not from the stock
MaxSale_range_only(current_inventory, reorder_level) ==
    LET max_sale == transaction_types["sale"].quantity_range[2]
    IN  IF current_inventory < reorder_level
        THEN Min(max_sale, Max(1, current_inventory \div 5))
        ELSE IF 10 * current_inventory < 15 * reorder_level
             THEN Min(max_sale, Max(1, (2 * current_inventory) \div 5))
        ELSE max_sale

\* generate_quantity, sale branch: the cap max_sale
MaxSale(current_inventory, reorder_level) ==
    LET max_sale == Min(current_inventory, transaction_types["sale"].quantity_range[2])
    IN  IF max_sale <= 0 THEN 0
        ELSE IF current_inventory < reorder_level
             THEN Min(max_sale, Max(1, current_inventory \div 5))
        ELSE IF 10 * current_inventory < 15 * reorder_level
             THEN Min(max_sale, Max(1, (2 * current_inventory) \div 5))
        ELSE max_sale

\* a sale branch without the "no sales if no inventory" return
SaleQuantity_no_stock_guard(current_inventory, reorder_level, r) ==
    RandInt(Skip(r, 1), 1, Max(1, MaxSale(current_inventory, reorder_level)))

\* generate_quantity, sale branch (up to two draws)
SaleQuantity(current_inventory, reorder_level, r) ==
    LET max_sale == MaxSale(current_inventory, reorder_level)
    IN  IF max_sale <= 0 THEN 0
        ELSE IF max_sale <= 3 THEN RandInt(Skip(r, 1), 1, max_sale)
        ELSE IF Random(Skip(r, 1)) < 80 THEN RandInt(Skip(r, 2), 1, Min(4, max_sale))
        ELSE RandInt(Skip(r, 2), Min(5, max_sale), max_sale)

\* generate_quantity, adjustment branch (one draw)
AdjustmentQuantity(current_inventory, r) ==
    LET base_range == transaction_types["adjustment"].quantity_range
        quantity == RandInt(Skip(r, 1), base_range[1], base_range[2])
    IN  IF quantity < 0 /\ (0 - quantity) > current_inventory
        THEN 0 - current_inventory
        ELSE quantity

\* generate_quantity
generate_quantity(t, category, key, levels, r) ==
    LET current_inventory == get_current_inventory(levels, key)
        reorder_level == ReorderLevel(key[1])
    IN  CASE t = "inbound" -> InboundQuantity(category, current_inventory, reorder_level, r)
          [] t = "sale" -> SaleQuantity(current_inventory, reorder_level, r)
          [] t = "adjustment" -> AdjustmentQuantity(current_inventory, r)

\* share of "delivered" (hundredths) that generate_time_aware_status sets
\* for an age; 0 stands for "keep the base weights"
AgeDelivered(days_ago) ==
    IF days_ago > 30 THEN 98
    ELSE IF days_ago > 14 THEN 90
    ELSE IF days_ago > 7 THEN 80
    ELSE IF days_ago > 3 THEN 65
    ELSE IF days_ago > 1 THEN 35
    ELSE 0

\* adjusted_weights of generate_time_aware_status, scaled by (n - 1) so that
\* the equal shares of the other statuses stay integers
AdjustedWeights(t, days_ago) ==
    LET n == Len(transaction_types[t].status_options)
        d == AgeDelivered(days_ago)
    IN  IF d = 0 THEN transaction_types[t].status_weights
        ELSE [k \in 1..n |-> IF k = 1 THEN d * (n - 1) ELSE 100 - d]

\* probability (hundredths) that the status drawn is the first option, "delivered"
DeliveredWeight(t, days_ago) ==
    (100 * AdjustedWeights(t, days_ago)[1]) \div SumSeq(AdjustedWeights(t, days_ago))

\* generate_time_aware_status
generate_time_aware_status(t, date, endDate, r) ==
    Choices(r, transaction_types[t].status_options, AdjustedWeights(t, endDate - date))

\* generate_transaction_timestamp (two draws): hour 6..18 weighted, minute 0..59
generate_transaction_timestamp(date, r) ==
    LET hours == [k \in 1..13 |-> k + 5]
        weights == <<5, 10, 10, 8, 8, 8, 8, 8, 8, 8, 8, 8, 5>>
        hour == Choices(Skip(r, 1), hours, weights)
        minute == RandInt(Skip(r, 2), 0, 59)
    IN  Timestamp(date, hour, minute)

\* note templates per type that already carry URGENT, emergency or rush
UrgentTemplates(t) ==
    CASE t = "inbound" -> {3, 4, 5} [] t = "sale" -> {2, 5, 8} [] t = "adjustment" -> {}

NumTemplates(t) == CASE t = "inbound" -> 8 [] t = "sale" -> 21 [] t = "adjustment" -> 8

\* generate_note (two draws): the template chosen and whether URGENT is prefixed
generate_note(t, category, r) ==
    LET template == RandInt(Skip(r, 1), 1, NumTemplates(t))
    IN  [template |-> template, category |-> category,
         urgent |-> Random(Skip(r, 2)) < 10 /\ template \notin UrgentTemplates(t)]

(***************************************************************************)
(* Reorder policy: generate_reorder_transactions.                          *)
(***************************************************************************)
\* the short cooldown whatever the stock
CooldownDays_always_short(current_inventory, reorder_level) ==
    IF current_inventory < reorder_level THEN 5 ELSE 5

\* cooldown_days with the two cases exchanged
CooldownDays_swapped(current_inventory, reorder_level) ==
    IF current_inventory < reorder_level THEN 7 ELSE 5

\* cooldown_days = 5 if current_inventory < reorder_level else 7
CooldownDays(current_inventory, reorder_level) ==
    IF current_inventory < reorder_level THEN 5 ELSE 7

\* the reorder test passing over the pairs that are out of stock
NeedsReorder_in_stock_only(current_inventory, reorder_level, history, key, date) ==
    /\ current_inventory > 0
    /\ 10 * current_inventory < 15 * reorder_level
    /\ \/ key \notin DOMAIN history
       \/ date - history[key] >= CooldownDays(current_inventory, reorder_level)

\* the reorder test with the threshold at 2 x reorder level
NeedsReorder_below_twice(current_inventory, reorder_level, history, key, date) ==
    /\ current_inventory < 2 * reorder_level
    /\ \/ key \notin DOMAIN history
       \/ date - history[key] >= CooldownDays(current_inventory, reorder_level)

\* needs_reorder without the cooldown test
NeedsReorder_no_cooldown(current_inventory, reorder_level, history, key, date) ==
    10 * current_inventory < 15 * reorder_level

\* needs_reorder: stock below 1.5 x reorder level and no reorder in the cooldown
NeedsReorder(current_inventory, reorder_level, history, key, date) ==
    /\ 10 * current_inventory < 15 * reorder_level
    /\ \/ key \notin DOMAIN history
       \/ date - history[key] >= CooldownDays(current_inventory, reorder_level)

\* the reorder tiers without the standard tier
ReorderFactorRange_two_tiers(current_inventory, reorder_level) ==
    IF 10 * current_inventory < 3 * reorder_level THEN <<100, 120>> ELSE <<40, 60>>

\* range of the uniform factor of the reorder tier, in hundredths
ReorderFactorRange(current_inventory, reorder_level) ==
    IF 10 * current_inventory < 3 * reorder_level THEN <<100, 120>>
    ELSE IF 10 * current_inventory < 8 * reorder_level THEN <<80, 100>>
    ELSE <<40, 60>>

\* a reorder quantity aiming at the reorder level itself, without the 20% buffer
ReorderQuantity_no_buffer(current_inventory, reorder_level, r) ==
    LET shortage == Max(10, 10 * reorder_level - 10 * current_inventory)
        range == ReorderFactorRange(current_inventory, reorder_level)
    IN  (shortage * Uniform(r, range[1], range[2])) \div 1000

\* reorder_quantity = int(shortage * uniform), shortage = max(1, 1.2 * level - stock)
ReorderQuantity(current_inventory, reorder_level, r) ==
    LET shortage == Max(10, 12 * reorder_level - 10 * current_inventory)
        range == ReorderFactorRange(current_inventory, reorder_level)
    IN  (shortage * Uniform(r, range[1], range[2])) \div 1000

Urgency(current_inventory, reorder_level) ==
    IF current_inventory = 0 THEN "CRITICAL"
    ELSE IF 2 * current_inventory < reorder_level THEN "URGENT"
    ELSE "LOW"

\* one iteration of the nested loops: st = [levels, history, txs, r]
ReorderPair(st, key, date, endDate, sequence_offset) ==
    LET current_inventory == get_current_inventory(st.levels, key)
        reorder_level == ReorderLevel(key[1])
    IN  IF ~NeedsReorder(current_inventory, reorder_level, st.history, key, date) THEN st
        ELSE
          LET reorder_quantity == ReorderQuantity(current_inventory, reorder_level, Skip(st.r, 1))
              timestamp == generate_transaction_timestamp(date, Skip(st.r, 1))
              number == generate_transaction_number("inbound", date,
                            sequence_offset + Len(st.txs), Skip(st.r, 4))
              status == generate_time_aware_status("inbound", date, endDate, Skip(st.r, 5))
              transaction ==
                  [transaction_number |-> number,
                   product_id |-> key[1],
                   warehouse_id |-> key[2],
                   quantity_change |-> reorder_quantity,
                   transaction_type |-> "inbound",
                   status |-> status,
                   notes |-> [urgency |-> Urgency(current_inventory, reorder_level),
                              category |-> products_data[key[1]].category,
                              inventory |-> current_inventory,
                              reorder_level |-> reorder_level],
                   transaction_timestamp |-> timestamp,
                   updated_at |-> timestamp,
                   \* history fields, not part of the exported record
                   level_before |-> current_inventory,
                   reorder |-> TRUE]
          IN  [levels |-> update_inventory(st.levels, key, reorder_quantity),
               history |-> [k \in DOMAIN st.history \cup {key} |->
                               IF k = key THEN date ELSE st.history[k]],
               txs |-> Append(st.txs, transaction),
               r |-> Skip(st.r, 5)]

RECURSIVE ReorderLoop(_, _, _, _, _)
ReorderLoop(st, k, date, endDate, sequence_offset) ==
    IF k > Len(PairSeq) THEN st
    ELSE ReorderLoop(ReorderPair(st, PairSeq[k], date, endDate, sequence_offset),
                     k + 1, date, endDate, sequence_offset)

\* generate_reorder_transactions
generate_reorder_transactions(levels, history, date, endDate, sequence_offset, r) ==
    ReorderLoop([levels |-> levels, history |-> history, txs |-> <<>>, r |-> r],
                1, date, endDate, sequence_offset)

\* a cleanup that keeps only the entries of the last 3 days
cleanup_reorder_history_3_days(history, current) ==
    [k \in {key \in DOMAIN history : ~(history[key] < current - 3)} |-> history[k]]

\* cleanup_reorder_history: drop the entries older than 30 days
cleanup_reorder_history(history, current) ==
    [k \in {key \in DOMAIN history : ~(history[key] < current - 30)} |-> history[k]]

\* assess_inventory_health: the balance factor in tenths
assess_inventory_health(levels) ==
    LET total_products == Len(PairSeq)
        healthy_products ==
            Cardinality({key \in Pairs :
                10 * get_current_inventory(levels, key) > 12 * ReorderLevel(key[1])})
    IN  IF total_products = 0 THEN 10
        ELSE IF 10 * healthy_products < 4 * total_products THEN 15
        ELSE IF 10 * healthy_products < 6 * total_products THEN 12
        ELSE IF 10 * healthy_products < 8 * total_products THEN 10
        ELSE IF 10 * healthy_products < 9 * total_products THEN 6
        ELSE 3

\* adjusted_frequencies before normalisation, in ten-thousandths, in TypeSeq order
AdjustedFrequencies(health_factor) ==
    [k \in 1..Len(TypeSeq) |->
        IF TypeSeq[k] = "inbound"
        THEN transaction_types[TypeSeq[k]].frequency * health_factor
        ELSE transaction_types[TypeSeq[k]].frequency * 10]

(***************************************************************************)
(* State of one run of generate_all_transactions.                          *)
(***************************************************************************)
VARIABLES
    start_date,         \* self.start_date
    end_date,           \* self.end_date
    total_days,         \* (end_date - start_date).days
    current_date,       \* loop variable of generate_all_transactions
    day,                \* loop index of generate_all_transactions
    pc,                 \* "loop", "txn", "done" or "raised"
    inventory_levels,   \* self.inventory_levels
    reorder_history,    \* self.reorder_history
    inventory_history,  \* self.inventory_history
    all_transactions,   \* transactions of the days completed
    transactions,       \* transactions of the day being generated
    num_transactions,   \* number of iterations of the day's loop
    i,                  \* index of the day's loop
    adjusted_frequencies, \* the day's type weights
    rng,                \* state of the random module
    np_rng,             \* state of numpy.random
    day_open,           \* history: ledger and reorder history at the start of the day
    last_attempt,       \* history: the last iteration of the day's transaction loop
    summary_product_categories \* key order of summary["product_categories"]

\* State of the application's database and of the requests being handled
\* (app/smart_stock/server); the generator script and the application are
\* separate programs, each specification moves the variables of one of them.
VARIABLES
    inventory_transactions, \* table inventory_transactions: transaction_id -> row
    requests,               \* the requests being handled, one per connection
    started                 \* number of requests received so far

\* State of the Databricks job behind /api/jobs/demo-reset (routers/jobs.py)
VARIABLES
    job_runs,               \* the runs of DEMO_RESET_JOB_ID: run_id -> life cycle state
    triggers,               \* the calls of trigger_demo_reset being handled
    triggered               \* number of calls received so far

\* State of the order API of src/server (routers/orders.py, postgres_database.py)
VARIABLES
    orders,                 \* table orders: order_id -> row
    inventory_forecast,     \* table inventory_forecast: (product, store) -> current_stock
    order_requests,         \* the order requests being handled
    order_started           \* number of order requests received so far

gen_vars == <<start_date, end_date, total_days, current_date, day, pc, inventory_levels,
              reorder_history, inventory_history, all_transactions, transactions,
              num_transactions, i, adjusted_frequencies, rng, np_rng, day_open,
              last_attempt, summary_product_categories>>

app_vars == <<inventory_transactions, requests, started>>

job_vars == <<job_runs, triggers, triggered>>

order_vars == <<orders, inventory_forecast, order_requests, order_started>>

api_vars == <<app_vars, job_vars, order_vars>>

vars == <<gen_vars, api_vars>>

\* the application of app/smart_stock is not running
AppOff ==
    /\ inventory_transactions = <<>>
    /\ requests = <<>>
    /\ started = 0

\* no client calls the job routes
JobsOff ==
    /\ job_runs = <<>>
    /\ triggers = <<>>
    /\ triggered = 0

\* the order API of src/server is not running
OrdersOff ==
    /\ orders = <<>>
    /\ inventory_forecast = <<>>
    /\ order_requests = <<>>
    /\ order_started = 0

\* no server is running
ApiOff == AppOff /\ JobsOff /\ OrdersOff

Seeds == 1..NumSeeds

\* first simulated days: every weekday in June 2025, and runs that reach 2026
StartDates ==
    {Ordinal(2025, 6, 2) + k : k \in 0..6} \cup {Ordinal(2025, 12, 21) + k : k \in 0..2}

NoDay == [levels |-> <<>>, history |-> <<>>, checked |-> FALSE]

\* no iteration of the transaction loop has run on the current day
NoAttempt ==
    [transaction_type |-> "none", key |-> <<0, 0>>, level_before |-> 0, drawn |-> 0,
     count_before |-> 0]

\* every transaction emitted so far
Emitted == all_transactions \o transactions

\* TransactionGenerator.__init__ and the first lines of generate_all_transactions
Init ==
    \E seed \in Seeds, start \in StartDates :
        /\ start_date = start
        /\ total_days = TotalDays
        /\ end_date = start + TotalDays
        /\ current_date = start
        /\ day = 0
        /\ pc = "loop"
        /\ inventory_levels = initialize_inventory_levels(Seeded(seed))
        /\ reorder_history = <<>>
        /\ inventory_history = <<>>
        /\ all_transactions = <<>>
        /\ transactions = <<>>
        /\ num_transactions = 0
        /\ i = 0
        /\ adjusted_frequencies = AdjustedFrequencies(10)
        /\ rng = Skip(Seeded(seed), 2 * Len(PairSeq))
        /\ np_rng = Seeded(seed)
        /\ day_open = NoDay
        /\ last_attempt = NoAttempt
        /\ summary_product_categories = <<>>
        /\ ApiOff

\* generate_daily_transactions up to its transaction loop: the multipliers
\* (KeyError for a year without growth trend), the Poisson count, the
\* business-day reorder check and the health-adjusted frequencies
BeginDay ==
    /\ pc = "loop"
    /\ day < total_days
    /\ UNCHANGED api_vars
    /\ IF ~GrowthDefined(current_date)
       THEN /\ pc' = "raised"
            /\ UNCHANGED <<start_date, end_date, total_days, current_date, day,
                           inventory_levels, reorder_history, inventory_history,
                           all_transactions, transactions, num_transactions, i,
                           adjusted_frequencies, rng, np_rng, day_open, last_attempt,
                           summary_product_categories>>
       ELSE LET is_business_day == Weekday(current_date) < 5
                reorder_probability == IF Weekday(current_date) = 0 THEN 40 ELSE 20
                checked == is_business_day /\ Random(Skip(rng, 1)) < reorder_probability
                r1 == IF is_business_day THEN Skip(rng, 1) ELSE rng
                re == IF checked
                      THEN generate_reorder_transactions(inventory_levels, reorder_history,
                                                         current_date, end_date, 0, r1)
                      ELSE [levels |-> inventory_levels, history |-> reorder_history,
                            txs |-> <<>>, r |-> r1]
            IN  /\ np_rng' = NextRandom(np_rng)
                /\ num_transactions' = Max(1, Poisson(np_rng', BaseTransactions(current_date)))
                /\ inventory_levels' = re.levels
                /\ reorder_history' = re.history
                /\ transactions' = re.txs
                /\ rng' = re.r
                /\ adjusted_frequencies' = AdjustedFrequencies(assess_inventory_health(re.levels))
                /\ i' = 0
                /\ day_open' = [levels |-> inventory_levels, history |-> reorder_history,
                                checked |-> checked]
                /\ last_attempt' = NoAttempt
                /\ pc' = "txn"
                /\ UNCHANGED <<start_date, end_date, total_days, current_date, day,
                               inventory_history, all_transactions,
                               summary_product_categories>>

\* one iteration of the transaction loop of generate_daily_transactions
EmitTransaction ==
    /\ pc = "txn"
    /\ i < num_transactions
    /\ UNCHANGED api_vars
    /\ LET transaction_type == Choices(Skip(rng, 1), TypeSeq, adjusted_frequencies)
           category == Choices(Skip(rng, 2), CategorySeq,
                               [k \in 1..Len(CategorySeq) |->
                                   product_categories[CategorySeq[k]].base_demand])
           product_id == select_product_for_category(category, Skip(rng, 3))
           warehouse_id == select_warehouse(product_id, Skip(rng, 4))
           key == <<product_id, warehouse_id>>
           drawn == generate_quantity(transaction_type, category, key, inventory_levels,
                                      Skip(rng, 4))
           quantity == IF transaction_type \in {"sale", "adjustment"}
                       THEN 0 - (IF drawn < 0 THEN 0 - drawn ELSE drawn)
                       ELSE drawn
           timestamp == generate_transaction_timestamp(current_date, Skip(rng, 10))
           transaction ==
               [transaction_number |->
                    generate_transaction_number(transaction_type, current_date, i, Skip(rng, 13)),
                product_id |-> product_id,
                warehouse_id |-> warehouse_id,
                quantity_change |-> quantity,
                transaction_type |-> transaction_type,
                status |-> generate_time_aware_status(transaction_type, current_date,
                                                      end_date, Skip(rng, 8)),
                notes |-> generate_note(transaction_type, category, Skip(rng, 8)),
                transaction_timestamp |-> timestamp,
                updated_at |-> timestamp,
                \* history fields, not part of the exported record
                level_before |-> get_current_inventory(inventory_levels, key),
                reorder |-> FALSE]
       IN  /\ IF drawn = 0
              THEN /\ rng' = Skip(rng, 7)
                   /\ UNCHANGED <<inventory_levels, transactions>>
              ELSE /\ rng' = Skip(rng, 13)
                   /\ inventory_levels' = update_inventory(inventory_levels, key, quantity)
                   /\ transactions' = Append(transactions, transaction)
           /\ last_attempt' = [transaction_type |-> transaction_type, key |-> key,
                                level_before |-> get_current_inventory(inventory_levels, key),
                                drawn |-> drawn, count_before |-> Len(transactions)]
    /\ i' = i + 1
    /\ UNCHANGED <<start_date, end_date, total_days, current_date, day, pc, reorder_history,
                   inventory_history, all_transactions, num_transactions,
                   adjusted_frequencies, np_rng, day_open, summary_product_categories>>

\* end of generate_daily_transactions (the snapshot) and the rest of the
\* iteration of generate_all_transactions (extend, periodic cleanup, next date)
EndDay ==
    /\ pc = "txn"
    /\ i = num_transactions
    /\ UNCHANGED api_vars
    /\ inventory_history' = record_inventory_snapshot(inventory_history, current_date,
                                                      inventory_levels)
    /\ all_transactions' = all_transactions \o transactions
    /\ transactions' = <<>>
    /\ reorder_history' = IF day % 30 = 0
                          THEN cleanup_reorder_history(reorder_history, current_date)
                          ELSE reorder_history
    /\ current_date' = current_date + 1
    /\ day' = day + 1
    /\ pc' = IF day + 1 < total_days THEN "loop" ELSE "done"
    /\ last_attempt' = NoAttempt
    /\ UNCHANGED <<start_date, end_date, total_days, inventory_levels, num_transactions, i,
                   adjusted_frequencies, rng, np_rng, day_open, summary_product_categories>>

\* the orders in which a set of strings can be iterated: the order follows
\* the string hashes, which are salted anew in every interpreter process
SetIterationOrders(S) ==
    {order \in [1..Cardinality(S) -> S] :
        \A j, k \in 1..Cardinality(S) : j # k => order[j] # order[k]}

\* generate_summary_report: the "product_categories" entry of the summary
\* written to transaction_summary.json is built by iterating over
\* set(p["category"] for p in self.products_data)
generate_summary_report ==
    /\ pc = "done"
    /\ UNCHANGED api_vars
    /\ summary_product_categories' \in SetIterationOrders(DOMAIN product_categories)
    /\ pc' = "reported"
    /\ UNCHANGED <<start_date, end_date, total_days, current_date, day, inventory_levels,
                   reorder_history, inventory_history, all_transactions, transactions,
                   num_transactions, i, adjusted_frequencies, rng, np_rng, day_open,
                   last_attempt>>

Next == BeginDay \/ EmitTransaction \/ EndDay \/ generate_summary_report

Spec == Init /\ [][Next]_vars

\* first simulated day of the long runs
LongStartDates == {Ordinal(2025, 6, 5)}

\* TransactionGenerator.__init__ for a run of LongDays days
InitLong ==
    \E seed \in 1..LongSeeds, start \in LongStartDates :
        /\ start_date = start
        /\ total_days = LongDays
        /\ end_date = start + LongDays
        /\ current_date = start
        /\ day = 0
        /\ pc = "loop"
        /\ inventory_levels = initialize_inventory_levels(Seeded(seed))
        /\ reorder_history = <<>>
        /\ inventory_history = <<>>
        /\ all_transactions = <<>>
        /\ transactions = <<>>
        /\ num_transactions = 0
        /\ i = 0
        /\ adjusted_frequencies = AdjustedFrequencies(10)
        /\ rng = Skip(Seeded(seed), 2 * Len(PairSeq))
        /\ np_rng = Seeded(seed)
        /\ day_open = NoDay
        /\ last_attempt = NoAttempt
        /\ summary_product_categories = <<>>
        /\ ApiOff

SpecLong == InitLong /\ [][Next]_vars

\* the script runs every step of a run, up to the summary report: no step
\* that is possible is put off forever
FairSpec == Spec /\ WF_vars(Next)

(***************************************************************************)
(* The application: the routers of app/smart_stock/server over PostgreSQL. *)
(* Every db.execute_query and db.execute_update is a transaction of its    *)
(* own (get_cursor commits after the statement and rolls back when it      *)
(* raises), so the requests of different workers and clients interleave    *)
(* between statements.  A step of a handler is one statement together with *)
(* the Python code up to the next statement or to the response.            *)
(***************************************************************************)
\* requests received in a behaviour
MaxRequests == 3

\* the connections on which requests arrive
Connections == {"c1", "c2"}

\* final_states of bulk_update_status, the list tested by delete_transaction
final_states == {"delivered", "cancelled"}

\* the statuses and ids that requests carry; "none" is a field left out
RequestStatuses == {"pending", "delivered", "cancelled"}

IdInputs == {1, 2, 3}

\* rows of inventory_transactions when the application starts
InitialTransactions ==
    [transaction_id \in {1, 2} |->
        [status |-> IF transaction_id = 1 THEN "pending" ELSE "delivered"]]

\* exceptions: fastapi.HTTPException and the errors psycopg2 raises
NoException == [kind |-> "none", status_code |-> 0, detail |-> ""]

HTTPException(status_code, detail) ==
    [kind |-> "http", status_code |-> status_code, detail |-> detail]

OperationalError == [kind |-> "db", status_code |-> 0, detail |-> "connection lost"]

UniqueViolation ==
    [kind |-> "db", status_code |-> 0,
     detail |-> "duplicate key value violates unique constraint inventory_transactions_pkey"]

\* str(e): the message of a database error, "status_code: detail" of an HTTPException
Str(e) == [status_code |-> e.status_code, detail |-> e.detail]

\* the response of a handler that returns
Success == [status_code |-> 200, detail |-> "", exception |-> Str(NoException)]

\* the routes whose handler has "except HTTPException: raise"
ReraisesHTTPException ==
    {"get_transaction", "create_transaction", "bulk_update_status", "update_transaction",
     "delete_transaction", "get_product", "get_warehouse"}

\* the text before str(e) in the handler's "except Exception" clause
FailureText(route) ==
    CASE route = "get_transaction" -> "Failed to fetch transaction"
      [] route = "create_transaction" -> "Failed to create transaction"
      [] route = "bulk_update_status" -> "Failed to update transaction status"
      [] route = "update_transaction" -> "Failed to update transaction"
      [] route = "delete_transaction" -> "Failed to cancel transaction"
      [] route = "get_product" -> "Failed to fetch product"
      [] route = "get_warehouse" -> "Failed to fetch warehouse"
      [] route = "get_otpr_metrics" -> "Database error"
      [] route = "get_inventory_turnover_metrics" -> "Database error"
      [] route = "create_order" -> "Failed to create order"

\* the except clauses of a handler: the response for an exception raised in
\* the try block
ExceptionResponse(route, e) ==
    IF e.kind = "http" /\ route \in ReraisesHTTPException
    THEN [status_code |-> e.status_code, detail |-> e.detail, exception |-> Str(NoException)]
    ELSE [status_code |-> 500, detail |-> FailureText(route), exception |-> Str(e)]

\* found_ids and missing_ids of bulk_update_status
MissingIds_none(transaction_ids, existing_transactions) == {}

MissingIds(transaction_ids, existing_transactions) ==
    transaction_ids \ DOMAIN existing_transactions

\* locked_transactions of bulk_update_status
LockedTransactions(existing_transactions, status) ==
    {t \in DOMAIN existing_transactions :
        existing_transactions[t].status \in final_states /\ status \notin final_states}

\* SELECT COALESCE(MAX(transaction_id), 0) + 1 FROM inventory_transactions
MaxIdQuery(table) ==
    IF DOMAIN table = {} THEN 1
    ELSE (CHOOSE t \in DOMAIN table : \A u \in DOMAIN table : u <= t) + 1

\* SELECT ... WHERE transaction_id IN (...)
SelectIn(table, transaction_ids) ==
    [t \in DOMAIN table \cap transaction_ids |-> table[t]]

\* UPDATE inventory_transactions SET status = ... WHERE transaction_id IN (...)
UpdateStatus(table, transaction_ids, status) ==
    [t \in DOMAIN table |->
        IF t \in transaction_ids THEN [table[t] EXCEPT !.status = status] ELSE table[t]]

\* INSERT INTO inventory_transactions with an explicit transaction_id
Insert(table, transaction_id, status) ==
    [t \in DOMAIN table \cup {transaction_id} |->
        IF t = transaction_id THEN [status |-> status] ELSE table[t]]

\* a connection without a request
Idle ==
    [route |-> "none", pc |-> "idle", id |-> 0, transaction_ids |-> {},
     status |-> "none", notes |-> FALSE,
     exception |-> NoException,
     response |-> [status_code |-> 0, detail |-> "", exception |-> Str(NoException)]]

\* the request of a connection as it arrives
Arrived(route, pc0, id, transaction_ids, status, notes) ==
    [Idle EXCEPT !.route = route, !.pc = pc0, !.id = id,
                 !.transaction_ids = transaction_ids, !.status = status, !.notes = notes]

\* the handler returns; e is the exception it has caught and logged, if any
Return(c, e) ==
    requests' = [requests EXCEPT ![c] =
        [Idle EXCEPT !.route = requests[c].route, !.pc = "done", !.exception = e,
                     !.response = Success]]

\* an exception leaves the try block of the handler
Raise(c, e) ==
    requests' = [requests EXCEPT ![c] =
        [Idle EXCEPT !.route = requests[c].route, !.pc = "done", !.exception = e,
                     !.response = ExceptionResponse(requests[c].route, e)]]

\* the handler goes on to its next statement
Goto(c, label) == requests' = [requests EXCEPT ![c].pc = label]

\* a statement that any request may find failing
Faults == {FALSE, TRUE}


\* the generator script is not running
GeneratorOff ==
    /\ start_date = 0
    /\ end_date = 0
    /\ total_days = 0
    /\ current_date = 0
    /\ day = 0
    /\ pc = "off"
    /\ inventory_levels = <<>>
    /\ reorder_history = <<>>
    /\ inventory_history = <<>>
    /\ all_transactions = <<>>
    /\ transactions = <<>>
    /\ num_transactions = 0
    /\ i = 0
    /\ adjusted_frequencies = <<>>
    /\ rng = 0
    /\ np_rng = 0
    /\ day_open = NoDay
    /\ last_attempt = NoAttempt
    /\ summary_product_categories = <<>>

\* the requests that can arrive: route, first statement, path id, body
RequestInputs ==
    {Arrived("get_transaction", "select", id, {}, "none", FALSE) : id \in IdInputs}
    \cup {Arrived("create_transaction", "max_id", 0, {}, status, FALSE) :
              status \in {"none", "delivered"}}
    \cup {Arrived("bulk_update_status", "check", 0, ids, status, FALSE) :
              ids \in SUBSET IdInputs, status \in RequestStatuses}
    \cup {Arrived("update_transaction", "update", id, {}, status, FALSE) :
              id \in IdInputs, status \in RequestStatuses \cup {"none"}}
    \cup {Arrived("update_transaction", "update", id, {}, "none", TRUE) : id \in IdInputs}
    \cup {Arrived("delete_transaction", "check", id, {}, "none", FALSE) : id \in IdInputs}
    \cup {Arrived("create_order", "forecast", 0, {}, "none", FALSE),
          Arrived("create_order", "max_id", 0, {}, "none", FALSE)}
    \cup {Arrived("get_product", "select", id, {}, "none", FALSE) : id \in {2, 99}}
    \cup {Arrived("get_warehouse", "select", id, {}, "none", FALSE) : id \in {1, 99}}
    \cup {Arrived("get_otpr_metrics", "select", 0, {}, "none", FALSE),
          Arrived("get_inventory_turnover_metrics", "select", 0, {}, "none", FALSE)}

\* the connection c is at the statement pc0 of the handler of route
At(c, route, pc0) == requests[c].route = route /\ requests[c].pc = pc0

\* a request arrives on a free connection
receive_request ==
    /\ started < MaxRequests
    /\ \E c \in Connections :
          /\ requests[c].pc = "idle"
          /\ \E request \in RequestInputs : requests' = [requests EXCEPT ![c] = request]
    /\ started' = started + 1
    /\ UNCHANGED <<inventory_transactions, gen_vars, job_vars, order_vars>>

\* the response is sent and the connection is free again
send_response ==
    /\ \E c \in Connections :
          /\ requests[c].pc = "done"
          /\ requests' = [requests EXCEPT ![c] = Idle]
    /\ UNCHANGED <<inventory_transactions, started, gen_vars, job_vars, order_vars>>

\* GET /transactions/{transaction_id}
get_transaction ==
    /\ \E c \in Connections, fault \in Faults :
          /\ At(c, "get_transaction", "select")
          /\ IF fault THEN Raise(c, OperationalError)
             ELSE IF requests[c].id \notin DOMAIN inventory_transactions
                  THEN Raise(c, HTTPException(404, "Transaction not found"))
             ELSE Return(c, NoException)
    /\ UNCHANGED <<inventory_transactions, started, gen_vars, job_vars, order_vars>>

\* POST /transactions: the MAX(transaction_id) + 1 query
create_transaction_max_id ==
    /\ \E c \in Connections, fault \in Faults :
          /\ At(c, "create_transaction", "max_id")
          /\ IF fault THEN Raise(c, OperationalError)
             ELSE requests' = [requests EXCEPT ![c].id = MaxIdQuery(inventory_transactions),
                                               ![c].pc = "insert"]
    /\ UNCHANGED <<inventory_transactions, started, gen_vars, job_vars, order_vars>>

\* POST /transactions: the INSERT with the explicit transaction_id
create_transaction_insert ==
    /\ \E c \in Connections, fault \in Faults :
          /\ At(c, "create_transaction", "insert")
          /\ IF fault
             THEN Raise(c, OperationalError) /\ UNCHANGED inventory_transactions
             ELSE IF requests[c].id \in DOMAIN inventory_transactions
                  THEN Raise(c, UniqueViolation) /\ UNCHANGED inventory_transactions
             ELSE /\ inventory_transactions' =
                         Insert(inventory_transactions, requests[c].id,
                                IF requests[c].status = "none" THEN "pending"
                                ELSE requests[c].status)
                  /\ Goto(c, "select")
    /\ UNCHANGED <<started, gen_vars, job_vars, order_vars>>

\* POST /transactions: the SELECT of the created row
create_transaction_select ==
    /\ \E c \in Connections, fault \in Faults :
          /\ At(c, "create_transaction", "select")
          /\ IF fault THEN Raise(c, OperationalError)
             ELSE IF requests[c].id \in DOMAIN inventory_transactions
                  THEN Return(c, NoException)
             ELSE Raise(c, HTTPException(500, "Failed to create transaction"))
    /\ UNCHANGED <<inventory_transactions, started, gen_vars, job_vars, order_vars>>

\* PUT /transactions/bulk-status up to its UPDATE: the validation
bulk_update_status_check ==
    /\ \E c \in Connections, fault \in Faults :
          /\ At(c, "bulk_update_status", "check")
          /\ LET request == requests[c]
                 existing_transactions ==
                     SelectIn(inventory_transactions, request.transaction_ids)
             IN  IF request.transaction_ids = {}
                 THEN Raise(c, HTTPException(400, "No transaction IDs provided"))
                 ELSE IF fault THEN Raise(c, OperationalError)
                 ELSE IF DOMAIN existing_transactions = {}
                      THEN Raise(c, HTTPException(404, "No valid transactions found"))
                 ELSE IF MissingIds(request.transaction_ids, existing_transactions) # {}
                      THEN Raise(c, HTTPException(404, "Transactions not found"))
                 ELSE IF LockedTransactions(existing_transactions, request.status) # {}
                      THEN Raise(c, HTTPException(400,
                                        "Cannot update transactions in final state"))
                 ELSE Goto(c, "update")
    /\ UNCHANGED <<inventory_transactions, started, gen_vars, job_vars, order_vars>>

\* PUT /transactions/bulk-status: the UPDATE
bulk_update_status_update ==
    /\ \E c \in Connections, fault \in Faults :
          /\ At(c, "bulk_update_status", "update")
          /\ IF fault
             THEN Raise(c, OperationalError) /\ UNCHANGED inventory_transactions
             ELSE /\ inventory_transactions' =
                         UpdateStatus(inventory_transactions, requests[c].transaction_ids,
                                      requests[c].status)
                  /\ Return(c, NoException)
    /\ UNCHANGED <<started, gen_vars, job_vars, order_vars>>

\* PUT /transactions/{transaction_id}
update_transaction ==
    /\ \E c \in Connections, fault \in Faults :
          /\ At(c, "update_transaction", "update")
          /\ LET request == requests[c]
             IN  IF request.status = "none" /\ ~request.notes
                 THEN Raise(c, HTTPException(400, "No fields to update"))
                          /\ UNCHANGED inventory_transactions
                 ELSE IF fault
                      THEN Raise(c, OperationalError) /\ UNCHANGED inventory_transactions
                 ELSE IF request.id \notin DOMAIN inventory_transactions
                      THEN Raise(c, HTTPException(404, "Transaction not found"))
                               /\ UNCHANGED inventory_transactions
                 ELSE /\ inventory_transactions' =
                             IF request.status = "none" THEN inventory_transactions
                             ELSE UpdateStatus(inventory_transactions, {request.id},
                                               request.status)
                      /\ Return(c, NoException)
    /\ UNCHANGED <<started, gen_vars, job_vars, order_vars>>

\* DELETE /transactions/{transaction_id} up to its UPDATE
delete_transaction_check ==
    /\ \E c \in Connections, fault \in Faults :
          /\ At(c, "delete_transaction", "check")
          /\ LET request == requests[c]
             IN  IF fault THEN Raise(c, OperationalError)
                 ELSE IF request.id \notin DOMAIN inventory_transactions
                      THEN Raise(c, HTTPException(404, "Transaction not found"))
                 ELSE IF inventory_transactions[request.id].status \in final_states
                      THEN Raise(c, HTTPException(400, "Cannot cancel transaction"))
                 ELSE Goto(c, "update")
    /\ UNCHANGED <<inventory_transactions, started, gen_vars, job_vars, order_vars>>

\* DELETE /transactions/{transaction_id}: the UPDATE to 'cancelled'
delete_transaction_update ==
    /\ \E c \in Connections, fault \in Faults :
          /\ At(c, "delete_transaction", "update")
          /\ IF fault
             THEN Raise(c, OperationalError) /\ UNCHANGED inventory_transactions
             ELSE /\ inventory_transactions' =
                         UpdateStatus(inventory_transactions, {requests[c].id}, "cancelled")
                  /\ Return(c, NoException)
    /\ UNCHANGED <<started, gen_vars, job_vars, order_vars>>

\* POST /orders with a forecast_id: the UPDATE of inventory_forecast, in a
\* try block of its own whose except clause logs the error and goes on
create_order_forecast ==
    /\ \E c \in Connections, fault \in Faults :
          /\ At(c, "create_order", "forecast")
          /\ requests' = [requests EXCEPT
                 ![c].pc = "max_id",
                 ![c].exception = IF fault THEN OperationalError ELSE NoException]
    /\ UNCHANGED <<inventory_transactions, started, gen_vars, job_vars, order_vars>>

\* POST /orders: the MAX(transaction_id) + 1 query; the except clause of
\* the transaction block logs an error and the handler returns the order
create_order_max_id ==
    /\ \E c \in Connections, fault \in Faults :
          /\ At(c, "create_order", "max_id")
          /\ IF fault THEN Return(c, OperationalError)
             ELSE requests' = [requests EXCEPT ![c].id = MaxIdQuery(inventory_transactions),
                                               ![c].pc = "insert"]
    /\ UNCHANGED <<inventory_transactions, started, gen_vars, job_vars, order_vars>>

\* POST /orders: the INSERT; a duplicate key on the primary key leads to
\* the retry, any other error is logged
create_order_insert ==
    /\ \E c \in Connections, fault \in Faults :
          /\ At(c, "create_order", "insert")
          /\ IF fault
             THEN Return(c, OperationalError) /\ UNCHANGED inventory_transactions
             ELSE IF requests[c].id \in DOMAIN inventory_transactions
                  THEN /\ requests' = [requests EXCEPT ![c].pc = "retry",
                                                       ![c].exception = UniqueViolation]
                       /\ UNCHANGED inventory_transactions
             ELSE /\ inventory_transactions' =
                         Insert(inventory_transactions, requests[c].id, "processing")
                  /\ Return(c, requests[c].exception)
    /\ UNCHANGED <<started, gen_vars, job_vars, order_vars>>

\* POST /orders: the second INSERT, with next_transaction_id + 100
create_order_retry ==
    /\ \E c \in Connections, fault \in Faults :
          /\ At(c, "create_order", "retry")
          /\ LET alternative_id == requests[c].id + 100
             IN  IF fault
                 THEN Return(c, OperationalError) /\ UNCHANGED inventory_transactions
                 ELSE IF alternative_id \in DOMAIN inventory_transactions
                      THEN Return(c, UniqueViolation) /\ UNCHANGED inventory_transactions
                 ELSE /\ inventory_transactions' =
                             Insert(inventory_transactions, alternative_id, "processing")
                      /\ Return(c, UniqueViolation)
    /\ UNCHANGED <<started, gen_vars, job_vars, order_vars>>

\* GET /products/{product_id}; the products table holds the catalogue
get_product ==
    /\ \E c \in Connections, fault \in Faults :
          /\ At(c, "get_product", "select")
          /\ IF fault THEN Raise(c, OperationalError)
             ELSE IF requests[c].id \notin Products
                  THEN Raise(c, HTTPException(404, "Product not found"))
             ELSE Return(c, NoException)
    /\ UNCHANGED <<inventory_transactions, started, gen_vars, job_vars, order_vars>>

\* GET /warehouses/{warehouse_id}
get_warehouse ==
    /\ \E c \in Connections, fault \in Faults :
          /\ At(c, "get_warehouse", "select")
          /\ IF fault THEN Raise(c, OperationalError)
             ELSE IF requests[c].id \notin Warehouses
                  THEN Raise(c, HTTPException(404, "Warehouse not found"))
             ELSE Return(c, NoException)
    /\ UNCHANGED <<inventory_transactions, started, gen_vars, job_vars, order_vars>>

\* GET /otpr; whether the view has a row depends on the data behind it
get_otpr_metrics ==
    /\ \E c \in Connections, fault \in Faults, rows \in BOOLEAN :
          /\ At(c, "get_otpr_metrics", "select")
          /\ IF fault THEN Raise(c, OperationalError)
             ELSE IF ~rows
                  THEN Raise(c, HTTPException(404, "No data available in OTPR view"))
             ELSE Return(c, NoException)
    /\ UNCHANGED <<inventory_transactions, started, gen_vars, job_vars, order_vars>>

\* GET /inventory-turnover
get_inventory_turnover_metrics ==
    /\ \E c \in Connections, fault \in Faults, rows \in BOOLEAN :
          /\ At(c, "get_inventory_turnover_metrics", "select")
          /\ IF fault THEN Raise(c, OperationalError)
             ELSE IF ~rows
                  THEN Raise(c, HTTPException(404,
                                    "No data available in inventory_turnover view"))
             ELSE Return(c, NoException)
    /\ UNCHANGED <<inventory_transactions, started, gen_vars, job_vars, order_vars>>

\* the application starts on the populated database
InitApp ==
    /\ GeneratorOff /\ JobsOff /\ OrdersOff
    /\ inventory_transactions = InitialTransactions
    /\ requests = [c \in Connections |-> Idle]
    /\ started = 0

NextApp ==
    \/ receive_request
    \/ send_response
    \/ get_transaction
    \/ create_transaction_max_id
    \/ create_transaction_insert
    \/ create_transaction_select
    \/ bulk_update_status_check
    \/ bulk_update_status_update
    \/ update_transaction
    \/ delete_transaction_check
    \/ delete_transaction_update
    \/ create_order_forecast
    \/ create_order_max_id
    \/ create_order_insert
    \/ create_order_retry
    \/ get_product
    \/ get_warehouse
    \/ get_otpr_metrics
    \/ get_inventory_turnover_metrics

SpecApp == InitApp /\ [][NextApp]_vars

(***************************************************************************)
(* The demo-reset job: trigger_demo_reset of routers/jobs.py.  The handler *)
(* awaits three calls of the Databricks Jobs API (runs/list, run-now,      *)
(* runs/get); at every await other calls of the route can run.             *)
(***************************************************************************)
\* calls of the trigger route in a behaviour
MaxTriggers == 3

\* the clients that call the route
Clients == {"u1", "u2"}

\* what a call of the Jobs API can do: answer 200, answer with an error
\* status, or fail in httpx (timeout, connection error)
ApiOutcomes == {"ok", "error", "raises"}

NoTrigger ==
    [pc |-> "idle", run_id |-> 0, status_code |-> 0, message |-> "",
     \* history: was a run active when runs/list and run-now were called
     active_at_list |-> FALSE, active_at_run_now |-> FALSE]

\* the runs that runs/list returns with active_only
ActiveRuns == {run_id \in DOMAIN job_runs : job_runs[run_id] = "RUNNING"}

\* active_runs[0]: runs/list returns the runs by start time, latest first
FirstActiveRun == CHOOSE run_id \in ActiveRuns : \A other \in ActiveRuns : other <= run_id

\* a client calls POST /api/jobs/demo-reset/trigger
receive_trigger ==
    /\ triggered < MaxTriggers
    /\ \E c \in Clients :
          /\ triggers[c].pc = "idle"
          /\ triggers' = [triggers EXCEPT ![c].pc = "list"]
    /\ triggered' = triggered + 1
    /\ UNCHANGED <<job_runs, gen_vars, app_vars, order_vars>>

\* trigger_demo_reset up to its second await: the active-run lookup; only
\* an answer 200 that lists a run ends the handler
trigger_demo_reset_list ==
    /\ \E c \in Clients, outcome \in ApiOutcomes :
          /\ triggers[c].pc = "list"
          /\ LET seen == [triggers[c] EXCEPT !.active_at_list = ActiveRuns # {}]
             IN  triggers' = [triggers EXCEPT ![c] =
                     IF outcome = "raises"
                     THEN [seen EXCEPT !.pc = "done", !.status_code = 500]
                     ELSE IF outcome = "ok" /\ ActiveRuns # {}
                          THEN [seen EXCEPT !.pc = "done", !.status_code = 200,
                                            !.message = "A demo reset is already in progress",
                                            !.run_id = FirstActiveRun]
                     ELSE [seen EXCEPT !.pc = "run_now"]]
    /\ UNCHANGED <<job_runs, triggered, gen_vars, app_vars, order_vars>>

\* trigger_demo_reset: the run-now call
trigger_demo_reset_run_now ==
    /\ \E c \in Clients, outcome \in ApiOutcomes :
          /\ triggers[c].pc = "run_now"
          /\ LET seen == [triggers[c] EXCEPT !.active_at_run_now = ActiveRuns # {}]
             IN  IF outcome = "ok"
                 THEN /\ job_runs' = Append(job_runs, "RUNNING")
                      /\ triggers' = [triggers EXCEPT ![c] =
                             [seen EXCEPT !.pc = "get", !.run_id = Len(job_runs) + 1]]
                 ELSE /\ triggers' = [triggers EXCEPT ![c] =
                             [seen EXCEPT !.pc = "done",
                                          \* response.status_code, for instance 429
                                          !.status_code = IF outcome = "error"
                                                          THEN 429 ELSE 500]]
                      /\ UNCHANGED job_runs
    /\ UNCHANGED <<triggered, gen_vars, app_vars, order_vars>>

\* trigger_demo_reset: the runs/get call for the page URL, and the answer
trigger_demo_reset_get ==
    /\ \E c \in Clients, outcome \in ApiOutcomes :
          /\ triggers[c].pc = "get"
          /\ triggers' = [triggers EXCEPT ![c] =
                 IF outcome = "raises"
                 THEN [triggers[c] EXCEPT !.pc = "done", !.status_code = 500]
                 ELSE [triggers[c] EXCEPT !.pc = "done", !.status_code = 200,
                           !.message = "Demo reset job triggered successfully"]]
    /\ UNCHANGED <<job_runs, triggered, gen_vars, app_vars, order_vars>>

\* the client has its answer
answer_trigger ==
    /\ \E c \in Clients :
          /\ triggers[c].pc = "done"
          /\ triggers' = [triggers EXCEPT ![c] = NoTrigger]
    /\ UNCHANGED <<job_runs, triggered, gen_vars, app_vars, order_vars>>

\* Databricks: an active run of the job ends
run_terminates ==
    /\ \E run_id \in ActiveRuns : job_runs' = [job_runs EXCEPT ![run_id] = "TERMINATED"]
    /\ UNCHANGED <<triggers, triggered, gen_vars, app_vars, order_vars>>

\* the job has no run or one active run when the clients start calling
InitJobsApi ==
    /\ GeneratorOff /\ AppOff /\ OrdersOff
    /\ job_runs \in {<<>>, <<"RUNNING">>}
    /\ triggers = [c \in Clients |-> NoTrigger]
    /\ triggered = 0

NextJobs ==
    \/ receive_trigger
    \/ trigger_demo_reset_list
    \/ trigger_demo_reset_run_now
    \/ trigger_demo_reset_get
    \/ answer_trigger
    \/ run_terminates

SpecJobs == InitJobsApi /\ [][NextJobs]_vars

(***************************************************************************)
(* The order API of src/server: routers/orders.py over                     *)
(* postgres_database.execute_order_transaction.  execute_order_transaction *)
(* runs its statements on one cursor, in one database transaction;         *)
(* execute_query and execute_update are transactions of their own.         *)
(***************************************************************************)
\* order requests received in a behaviour
MaxOrderRequests == 3

\* what order requests carry: the (product, store) pair, the quantity, the
\* status ("none" is a field left out) and the order_id of the path
OrderPairs == {<<1, 1>>, <<2, 1>>}

OrderQuantities == {2, 3}

OrderStatusInputs == {"pending", "delivered", "cancelled"}

OrderIdInputs == {1, 2}

\* current_stock of every pair when the API starts
InitialStock_forecast == [pair \in OrderPairs |-> 10]

NoOrderData == [product_id |-> 0, store_id |-> 0, quantity |-> 0, status |-> "none"]

NoOrderRequest ==
    [route |-> "none", pc |-> "idle", order_id |-> 0, order_data |-> NoOrderData,
     status_code |-> 0]

\* the handler answers
OrderAnswer(c, status_code) ==
    order_requests' = [order_requests EXCEPT ![c] =
        [NoOrderRequest EXCEPT !.route = order_requests[c].route, !.pc = "done",
                               !.status_code = status_code]]

\* UPDATE inventory_forecast SET current_stock = current_stock + change
\* WHERE product_id = ... AND store_id = ...
UpdateStock(forecast, product_id, store_id, change) ==
    [pair \in DOMAIN forecast |->
        IF pair = <<product_id, store_id>> THEN forecast[pair] + change ELSE forecast[pair]]

\* _create_order_with_inventory: the order row (order_id from the sequence)
\* and the stock taken from the forecast
CreateOrderWithInventory(table, forecast, order_data) ==
    [orders |-> Append(table, order_data),
     inventory_forecast |-> UpdateStock(forecast, order_data.product_id, order_data.store_id,
                                        0 - order_data.quantity)]

\* _cancel_order_with_inventory: the order is marked cancelled and the
\* quantity of order_data is put back
CancelOrderWithInventory(table, forecast, order_id, order_data) ==
    [orders |-> [o \in DOMAIN table |->
                    IF o = order_id THEN [table[o] EXCEPT !.status = "cancelled"]
                    ELSE table[o]],
     inventory_forecast |-> UpdateStock(forecast, order_data.product_id, order_data.store_id,
                                        order_data.quantity)]

\* the requests that can arrive
OrderRequestInputs ==
    {[NoOrderRequest EXCEPT !.route = "create_order", !.pc = "create",
                            !.order_data = [product_id |-> pair[1], store_id |-> pair[2],
                                            quantity |-> quantity, status |-> status]] :
         pair \in OrderPairs, quantity \in OrderQuantities, status \in {"pending", "cancelled"}}
    \cup {[NoOrderRequest EXCEPT !.route = "update_order", !.pc = "update", !.order_id = id,
                                 !.order_data = [NoOrderData EXCEPT !.quantity = quantity,
                                                                    !.status = status]] :
              id \in OrderIdInputs, quantity \in {0} \cup OrderQuantities,
              status \in {"none"} \cup OrderStatusInputs}
    \cup {[NoOrderRequest EXCEPT !.route = "delete_order", !.pc = "check", !.order_id = id] :
              id \in OrderIdInputs}

\* the connection c is at the statement pc0 of the handler of route
OrderAt(c, route, pc0) == order_requests[c].route = route /\ order_requests[c].pc = pc0

\* a request arrives on a free connection
receive_order_request ==
    /\ order_started < MaxOrderRequests
    /\ \E c \in Connections :
          /\ order_requests[c].pc = "idle"
          /\ \E request \in OrderRequestInputs :
                 order_requests' = [order_requests EXCEPT ![c] = request]
    /\ order_started' = order_started + 1
    /\ UNCHANGED <<orders, inventory_forecast, gen_vars, app_vars, job_vars>>

\* the response is sent
send_order_response ==
    /\ \E c \in Connections :
          /\ order_requests[c].pc = "done"
          /\ order_requests' = [order_requests EXCEPT ![c] = NoOrderRequest]
    /\ UNCHANGED <<orders, inventory_forecast, order_started, gen_vars, app_vars, job_vars>>

\* POST /orders: execute_order_transaction("create", ...); a statement
\* that raises rolls the transaction back
create_order ==
    /\ \E c \in Connections, fault \in Faults :
          /\ OrderAt(c, "create_order", "create")
          /\ IF fault
             THEN OrderAnswer(c, 500) /\ UNCHANGED <<orders, inventory_forecast>>
             ELSE LET done == CreateOrderWithInventory(orders, inventory_forecast,
                                                       order_requests[c].order_data)
                  IN  /\ orders' = done.orders
                      /\ inventory_forecast' = done.inventory_forecast
                      /\ OrderAnswer(c, 200)
    /\ UNCHANGED <<order_started, gen_vars, app_vars, job_vars>>

\* PUT /orders/{order_id}: the UPDATE of the fields sent
update_order ==
    /\ \E c \in Connections, fault \in Faults :
          /\ OrderAt(c, "update_order", "update")
          /\ LET request == order_requests[c]
                 order_update == request.order_data
             IN  IF order_update.status = "none" /\ order_update.quantity = 0
                 THEN OrderAnswer(c, 400) /\ UNCHANGED orders
                 ELSE IF fault THEN OrderAnswer(c, 500) /\ UNCHANGED orders
                 ELSE IF request.order_id \notin DOMAIN orders
                      THEN OrderAnswer(c, 404) /\ UNCHANGED orders
                 ELSE /\ orders' = [orders EXCEPT ![request.order_id] =
                             [@ EXCEPT !.status = IF order_update.status = "none" THEN @
                                                  ELSE order_update.status,
                                       !.quantity = IF order_update.quantity = 0 THEN @
                                                    ELSE order_update.quantity]]
                      /\ order_requests' = [order_requests EXCEPT ![c].pc = "select"]
    /\ UNCHANGED <<inventory_forecast, order_started, gen_vars, app_vars, job_vars>>

\* PUT /orders/{order_id}: the SELECT of the updated order
update_order_select ==
    /\ \E c \in Connections, fault \in Faults :
          /\ OrderAt(c, "update_order", "select")
          /\ OrderAnswer(c, IF fault THEN 500 ELSE 200)
    /\ UNCHANGED <<orders, inventory_forecast, order_started, gen_vars, app_vars, job_vars>>

\* DELETE /orders/{order_id} up to the cancellation: the order is read and
\* its status tested
delete_order_check ==
    /\ \E c \in Connections, fault \in Faults :
          /\ OrderAt(c, "delete_order", "check")
          /\ LET order_id == order_requests[c].order_id
             IN  IF fault THEN OrderAnswer(c, 500)
                 ELSE IF order_id \notin DOMAIN orders THEN OrderAnswer(c, 404)
                 ELSE IF orders[order_id].status \in {"cancelled", "delivered"}
                      THEN OrderAnswer(c, 400)
                 ELSE order_requests' = [order_requests EXCEPT
                          ![c].pc = "cancel", ![c].order_data = orders[order_id]]
    /\ UNCHANGED <<orders, inventory_forecast, order_started, gen_vars, app_vars, job_vars>>

\* DELETE /orders/{order_id}: execute_order_transaction("cancel", order_data)
delete_order_cancel ==
    /\ \E c \in Connections, fault \in Faults :
          /\ OrderAt(c, "delete_order", "cancel")
          /\ IF fault
             THEN OrderAnswer(c, 500) /\ UNCHANGED <<orders, inventory_forecast>>
             ELSE LET done == CancelOrderWithInventory(orders, inventory_forecast,
                                  order_requests[c].order_id, order_requests[c].order_data)
                  IN  /\ orders' = done.orders
                      /\ inventory_forecast' = done.inventory_forecast
                      /\ OrderAnswer(c, 200)
    /\ UNCHANGED <<order_started, gen_vars, app_vars, job_vars>>

\* the order API starts without orders
InitOrderApi ==
    /\ GeneratorOff /\ AppOff /\ JobsOff
    /\ orders = <<>>
    /\ inventory_forecast = InitialStock_forecast
    /\ order_requests = [c \in Connections |-> NoOrderRequest]
    /\ order_started = 0

NextOrders ==
    \/ receive_order_request
    \/ send_order_response
    \/ create_order
    \/ update_order
    \/ update_order_select
    \/ delete_order_check
    \/ delete_order_cancel

SpecOrders == InitOrderApi /\ [][NextOrders]_vars

(***************************************************************************)
(* Properties.                                                             *)
(***************************************************************************)
TxIndex == 1..Len(Emitted)

PairOfTx(tx) == <<tx.product_id, tx.warehouse_id>>

\* C1: the ledger level of every pair is >= 0 in every reachable state and
\* in every recorded snapshot.
C1_LedgerNonNegative ==
    /\ \A key \in DOMAIN inventory_levels : inventory_levels[key] >= 0
    /\ \A k \in 1..Len(inventory_history) :
          \A sk \in DOMAIN inventory_history[k].inventory_levels :
              inventory_history[k].inventory_levels[sk] >= 0

\* a transaction that would have taken the level below zero was applied,
\* and a snapshot was recorded afterwards
C1_Witness ==
    /\ \E k \in 1..Len(all_transactions) :
          all_transactions[k].level_before + all_transactions[k].quantity_change < 0
    /\ \E k \in 1..Len(inventory_history) :
          \E sk \in DOMAIN inventory_history[k].inventory_levels :
              inventory_history[k].inventory_levels[sk] = 0

\* C2: every emitted sale removes at most the level the pair had immediately
\* before it.
C2_SaleCapped ==
    \A k \in TxIndex :
        Emitted[k].transaction_type = "sale" =>
            0 - Emitted[k].quantity_change <= Emitted[k].level_before

\* a sale that took the whole stock of its pair
C2_Witness ==
    \E k \in TxIndex :
        /\ Emitted[k].transaction_type = "sale"
        /\ Emitted[k].level_before > 0
        /\ 0 - Emitted[k].quantity_change = Emitted[k].level_before

ReorderPairOf(j, k) ==
    /\ j < k
    /\ Emitted[j].reorder
    /\ Emitted[k].reorder
    /\ PairOfTx(Emitted[j]) = PairOfTx(Emitted[k])

Abs(x) == IF x < 0 THEN 0 - x ELSE x

\* C3 as stated: two reorder transactions of one pair never have timestamps
\* fewer than 5 days apart.
C3_TimestampsApart ==
    \A j, k \in TxIndex :
        ReorderPairOf(j, k) =>
            Abs(Emitted[k].transaction_timestamp - Emitted[j].transaction_timestamp)
                >= 5 * 1440

\* C3 amended: two reorder transactions of one pair never fall on simulated
\* dates fewer than 5 days apart.
C3_DatesApart ==
    \A j, k \in TxIndex :
        ReorderPairOf(j, k) =>
            DateOf(Emitted[k].transaction_timestamp)
                - DateOf(Emitted[j].transaction_timestamp) >= 5

\* a pair reordered twice, the second time exactly 5 days after the first
C3_Witness ==
    \E j, k \in TxIndex :
        /\ ReorderPairOf(j, k)
        /\ DateOf(Emitted[k].transaction_timestamp)
               - DateOf(Emitted[j].transaction_timestamp) = 5

\* C4: no two emitted transactions carry the same transaction_number.
C4_UniqueNumbers ==
    \A j, k \in TxIndex :
        j # k => Emitted[j].transaction_number # Emitted[k].transaction_number

\* C5: generate_daily_transactions never raises, whatever the date range.
C5_NeverRaises == pc # "raised"

\* C6: after N simulated days inventory_history holds exactly N snapshots,
\* the k-th one dated start_date + (k - 1).
C6_OneSnapshotPerDay ==
    /\ Len(inventory_history) = day
    /\ \A k \in 1..Len(inventory_history) :
          inventory_history[k].date = start_date + (k - 1)

\* a complete run
C6_Witness == pc = "done" /\ day = total_days /\ Len(inventory_history) >= 2

\* C7: for each type the weight of "delivered" is non-decreasing in the age
\* of the transaction: no older age gives "delivered" a smaller weight than
\* the age at which a transaction was emitted.
C7_DeliveredMonotone ==
    \A k \in TxIndex :
        LET age == end_date - DateOf(Emitted[k].transaction_timestamp)
        IN  \A older \in age..(age + 31) :
                DeliveredWeight(Emitted[k].transaction_type, older)
                    >= DeliveredWeight(Emitted[k].transaction_type, age)

\* C8: an emitted adjustment with a negative quantity_change removes at most
\* the level the pair had immediately before it.
C8_AdjustmentCapped ==
    \A k \in TxIndex :
        (Emitted[k].transaction_type = "adjustment" /\ Emitted[k].quantity_change < 0) =>
            0 - Emitted[k].quantity_change <= Emitted[k].level_before

IsScenarioReorder(tx) ==
    /\ tx.reorder
    /\ ReorderLevel(tx.product_id) = 20
    /\ tx.level_before = 15

\* C9 as stated: a reorder of a pair with reorder level 20 and stock 15
\* brings the stock to at least 24.
C9_ReachesTarget ==
    \A k \in TxIndex :
        IsScenarioReorder(Emitted[k]) =>
            Emitted[k].level_before + Emitted[k].quantity_change >= 24

\* C9 amended: such a reorder brings the stock to at least 22 and at most 24.
C9_ReachesStandardTier ==
    \A k \in TxIndex :
        IsScenarioReorder(Emitted[k]) =>
            /\ Emitted[k].level_before + Emitted[k].quantity_change >= 22
            /\ Emitted[k].level_before + Emitted[k].quantity_change <= 24

\* a reorder was emitted for a pair with reorder level 20 and stock 15
C9_Witness ==
    \E k \in TxIndex :
        /\ IsScenarioReorder(Emitted[k])
        /\ inventory_levels[PairOfTx(Emitted[k])] >= 22

\* reorder-eligible at the start of the day: stock below 1.5 x reorder level
\* and no reorder recorded within the cooldown
EligibleAtOpen(key) ==
    /\ 2 * day_open.levels[key] < 3 * ReorderLevel(key[1])
    /\ \/ key \notin DOMAIN day_open.history
       \/ current_date - day_open.history[key]
              >= (IF day_open.levels[key] < ReorderLevel(key[1]) THEN 5 ELSE 7)

ReordersToday(key) ==
    Cardinality({k \in 1..Len(transactions) :
                    transactions[k].reorder /\ PairOfTx(transactions[k]) = key})

\* C10 as stated: on a business day every reorder-eligible pair gets exactly
\* one reorder transaction.
C10_EligibleReordered ==
    (pc = "txn" /\ Weekday(current_date) < 5) =>
        \A key \in Pairs : EligibleAtOpen(key) => ReordersToday(key) = 1

\* C10 amended: a pair gets exactly one reorder transaction on a day when it
\* is reorder-eligible and the day's reorder check runs, and none otherwise;
\* the check runs on business days only.
C10_CheckedEligibleReordered ==
    pc = "txn" =>
        /\ day_open.checked => Weekday(current_date) < 5
        /\ \A key \in Pairs :
              ReordersToday(key) =
                  (IF day_open.checked /\ EligibleAtOpen(key) THEN 1 ELSE 0)

\* the check ran on a business day with an eligible pair and with another
\* pair that was not eligible
C10_Witness ==
    /\ pc = "txn"
    /\ day_open.checked
    /\ \E key \in Pairs : EligibleAtOpen(key) /\ ReordersToday(key) = 1
    /\ \E key \in Pairs : ~EligibleAtOpen(key) /\ ReordersToday(key) = 0

\* quantity removed from a pair by the transactions j..k of the log
RECURSIVE Removed(_, _, _)
Removed(key, j, k) ==
    IF j > k THEN 0
    ELSE (IF PairOfTx(Emitted[k]) = key THEN 0 - Emitted[k].quantity_change ELSE 0)
             + Removed(key, j, k - 1)

\* the transactions j..k of the log that touch the pair are all sales
OnlySales(key, j, k) ==
    \A m \in j..k : PairOfTx(Emitted[m]) = key => Emitted[m].transaction_type = "sale"

\* C11: over any run of consecutive sale attempts against one pair with no
\* inbound in between, the quantity removed in total never exceeds the stock
\* at the start of the run, and a sale attempt made at stock 0 yields
\* quantity 0 and emits no transaction.
C11_SalesNeverOverdraw ==
    /\ \A j \in TxIndex :
          LET key == PairOfTx(Emitted[j])
          IN  OnlySales(key, j, Len(Emitted)) =>
                  Removed(key, j, Len(Emitted)) <= Emitted[j].level_before
    /\ (last_attempt.transaction_type = "sale" /\ last_attempt.level_before = 0) =>
          /\ last_attempt.drawn = 0
          /\ Len(transactions) = last_attempt.count_before

\* a run of at least two sales emptied a pair, and the next sale attempt
\* against it was skipped
C11_Witness ==
    /\ last_attempt.transaction_type = "sale"
    /\ last_attempt.level_before = 0
    /\ last_attempt.drawn = 0
    /\ \E j, k \in TxIndex :
          /\ j < k
          /\ PairOfTx(Emitted[j]) = last_attempt.key
          /\ PairOfTx(Emitted[k]) = last_attempt.key
          /\ OnlySales(last_attempt.key, j, Len(Emitted))
          /\ Removed(last_attempt.key, j, Len(Emitted)) = Emitted[j].level_before

\* C12: the output is a function of the seed and the date range: at the end
\* of a run, whose transactions and snapshots the seed and the date range
\* determine, the export cannot write two different files; here two key
\* orders of "product_categories" in transaction_summary.json.
C12_OutputDetermined ==
    \A x, y \in SetIterationOrders(DOMAIN product_categories) :
        (/\ ENABLED (generate_summary_report /\ summary_product_categories' = x)
         /\ ENABLED (generate_summary_report /\ summary_product_categories' = y)) => x = y

\* level of the pair right after transaction k of the log
LevelAfter(k) == Max(0, Emitted[k].level_before + Emitted[k].quantity_change)

\* C13: every emitted inbound transaction, ordinary or reorder, has a
\* quantity_change > 0 and strictly increases the stock of its pair; every
\* emitted sale has a quantity_change < 0.
C13_SignedQuantities ==
    \A k \in TxIndex :
        /\ Emitted[k].transaction_type = "inbound" =>
              /\ Emitted[k].quantity_change > 0
              /\ LevelAfter(k) > Emitted[k].level_before
        /\ Emitted[k].transaction_type = "sale" => Emitted[k].quantity_change < 0

\* the reorder transactions of a pair in the log
ReordersOf(key) == {k \in TxIndex : Emitted[k].reorder /\ PairOfTx(Emitted[k]) = key}

\* the reorder history as it would be with cleanup_reorder_history disabled:
\* the date of the last reorder of every pair that was ever reordered
UncleanedHistory ==
    [key \in {p \in Pairs : ReordersOf(p) # {}} |->
        DateOf(Emitted[CHOOSE k \in ReordersOf(key) :
                           \A m \in ReordersOf(key) : m <= k].transaction_timestamp)]

\* C14: cleanup_reorder_history never changes a reorder decision: for every
\* pair the decision taken on the kept history is the decision that the
\* history without any cleanup gives, and every entry that was dropped is
\* older than the longest cooldown.
C14_CleanupKeepsDecisions ==
    \A key \in Pairs :
        /\ NeedsReorder(inventory_levels[key], ReorderLevel(key[1]), reorder_history,
                        key, current_date)
               = NeedsReorder(inventory_levels[key], ReorderLevel(key[1]), UncleanedHistory,
                              key, current_date)
        /\ (key \in DOMAIN UncleanedHistory /\ key \notin DOMAIN reorder_history) =>
               current_date - UncleanedHistory[key] >= 7
        /\ key \in DOMAIN reorder_history =>
               (key \in DOMAIN UncleanedHistory
                   /\ reorder_history[key] = UncleanedHistory[key])

\* a pair was reordered, the cleanup dropped its entry, and a later check
\* reordered it again
C14_Witness ==
    \E key \in Pairs :
        /\ pc = "txn"
        /\ ReordersToday(key) = 1
        /\ key \notin DOMAIN day_open.history
        /\ \E k \in 1..Len(all_transactions) :
              all_transactions[k].reorder /\ PairOfTx(all_transactions[k]) = key

\* key of a pair in a snapshot
SnapshotPairs == {SnapshotKey(key) : key \in Pairs}

\* C15: the snapshot of a day is taken after the day's reorder and ordinary
\* transactions: when the day is over the last snapshot carries the day's
\* date and exactly one entry per (product, warehouse) pair, equal to the
\* ledger level of the pair after the day's last transaction.
C15_SnapshotAfterTransactions ==
    (pc # "txn" /\ day > 0) =>
        LET snapshot == inventory_history[Len(inventory_history)]
        IN  /\ snapshot.date = current_date - 1
            /\ DOMAIN snapshot.inventory_levels = SnapshotPairs
            /\ \A key \in Pairs :
                  snapshot.inventory_levels[SnapshotKey(key)] = inventory_levels[key]
            /\ \A k \in 1..Len(all_transactions) :
                  (/\ DateOf(all_transactions[k].transaction_timestamp) = snapshot.date
                   /\ \A m \in (k + 1)..Len(all_transactions) :
                         PairOfTx(all_transactions[m]) # PairOfTx(all_transactions[k]))
                      => snapshot.inventory_levels[SnapshotKey(PairOfTx(all_transactions[k]))]
                             = LevelAfter(k)

\* a day with a reorder and an ordinary transaction is over, and its snapshot
\* differs from the snapshot of the day before
C15_Witness ==
    /\ pc = "loop"
    /\ day > 1
    /\ \E j, k \in 1..Len(all_transactions) :
          /\ DateOf(all_transactions[j].transaction_timestamp) = current_date - 1
          /\ DateOf(all_transactions[k].transaction_timestamp) = current_date - 1
          /\ all_transactions[j].reorder
          /\ all_transactions[j].quantity_change > 0
          /\ ~all_transactions[k].reorder
    /\ inventory_history[Len(inventory_history)].inventory_levels
          # inventory_history[Len(inventory_history) - 1].inventory_levels

\* the reorder transactions emitted by the reorder check of the current day
TodaysReorders == {k \in 1..Len(transactions) : transactions[k].reorder}

\* C16: when a pair has a recorded last-reorder date D, no reorder is emitted
\* for it on a date earlier than D + 5 days if its stock at the check is
\* below its reorder level, nor earlier than D + 7 days if its stock is at
\* or above its reorder level.
C16_CooldownByStock ==
    \A k \in TodaysReorders :
        LET key == PairOfTx(transactions[k])
        IN  key \in DOMAIN day_open.history =>
                /\ transactions[k].level_before < ReorderLevel(key[1]) =>
                       current_date >= day_open.history[key] + 5
                /\ transactions[k].level_before >= ReorderLevel(key[1]) =>
                       current_date >= day_open.history[key] + 7

\* a pair with stock at or above its reorder level is reordered exactly 7
\* days after its recorded last reorder
C16_Witness ==
    \E k \in TodaysReorders :
        LET key == PairOfTx(transactions[k])
        IN  /\ key \in DOMAIN day_open.history
            /\ transactions[k].level_before >= ReorderLevel(key[1])
            /\ current_date = day_open.history[key] + 7

\* C17: a reorder transaction is emitted only on a business day (Monday to
\* Friday) and only for a pair whose stock immediately before the reorder
\* is below 1.5 x its reorder level.
C17_ReorderOnlyWhenLow ==
    \A k \in TxIndex :
        Emitted[k].reorder =>
            /\ Weekday(DateOf(Emitted[k].transaction_timestamp)) < 5
            /\ 2 * Emitted[k].level_before < 3 * ReorderLevel(Emitted[k].product_id)

\* a weekend day passed with a pair below 1.5 x its reorder level and out of
\* cooldown, and a reorder was emitted for a pair one unit under the threshold
C17_Witness ==
    /\ \E k \in TxIndex :
          /\ Emitted[k].reorder
          /\ 2 * Emitted[k].level_before + 2 >= 3 * ReorderLevel(Emitted[k].product_id)
    /\ pc = "txn"
    /\ Weekday(current_date) >= 5
    /\ \E key \in Pairs : EligibleAtOpen(key)

\* C18: when the reorder check emits a reorder with quantity q for a pair on
\* date d, then right after it the level of the pair is its previous level
\* plus q and its reorder history entry is d, and the level and the reorder
\* history entry of every pair without a reorder are as they were.
C18_ReorderFrame ==
    [][(pc = "loop" /\ pc' = "txn") =>
          \A key \in Pairs :
              LET emitted == {k \in 1..Len(transactions') :
                                 transactions'[k].reorder
                                     /\ PairOfTx(transactions'[k]) = key}
              IN  IF emitted # {}
                  THEN /\ \A k \in emitted :
                             /\ DateOf(transactions'[k].transaction_timestamp) = current_date
                             /\ inventory_levels'[key]
                                    = inventory_levels[key] + transactions'[k].quantity_change
                       /\ key \in DOMAIN reorder_history'
                       /\ reorder_history'[key] = current_date
                  ELSE /\ inventory_levels'[key] = inventory_levels[key]
                       /\ (key \in DOMAIN reorder_history') = (key \in DOMAIN reorder_history)
                       /\ key \in DOMAIN reorder_history =>
                              reorder_history'[key] = reorder_history[key]]_vars

\* the reorder check has just raised the level of one pair by a positive
\* quantity and recorded the date, next to a pair with an older entry and to
\* a pair that was never reordered
C18_Witness ==
    /\ pc = "txn"
    /\ i = 0
    /\ \E k \in TodaysReorders :
          /\ transactions[k].quantity_change > 0
          /\ inventory_levels[PairOfTx(transactions[k])]
                 = transactions[k].level_before + transactions[k].quantity_change
          /\ reorder_history[PairOfTx(transactions[k])] = current_date
    /\ \E key \in DOMAIN reorder_history : reorder_history[key] < current_date
    /\ \E key \in Pairs : key \notin DOMAIN reorder_history

\* C19: when the adjustment quantity drawn by generate_quantity is positive,
\* the emitted adjustment has a positive quantity_change and the stock of the
\* pair increases by that amount.
C19_PositiveAdjustmentAdds ==
    (last_attempt.transaction_type = "adjustment" /\ last_attempt.drawn > 0) =>
        /\ Len(transactions) = last_attempt.count_before + 1
        /\ transactions[Len(transactions)].quantity_change = last_attempt.drawn
        /\ inventory_levels[last_attempt.key]
               = last_attempt.level_before + last_attempt.drawn

TransactionsOf(key) == {k \in TxIndex : PairOfTx(Emitted[k]) = key}

\* sum of the quantity_change of the first k transactions of the log that
\* touch the pair
RECURSIVE QuantitySum(_, _)
QuantitySum(key, k) ==
    IF k = 0 THEN 0
    ELSE (IF PairOfTx(Emitted[k]) = key THEN Emitted[k].quantity_change ELSE 0)
             + QuantitySum(key, k - 1)

\* the level a pair had when the run started: the level its first
\* transaction found, or its level now if it has none
InitialLevel(key) ==
    IF TransactionsOf(key) = {} THEN inventory_levels[key]
    ELSE Emitted[CHOOSE k \in TransactionsOf(key) :
                     \A m \in TransactionsOf(key) : k <= m].level_before

\* C24: for every pair, at every point of a generation run, the ledger
\* level equals the pair's initial level plus the sum of quantity_change
\* over all transactions emitted so far for the pair.
C24_LedgerIsReplay ==
    \A key \in Pairs :
        inventory_levels[key] = InitialLevel(key) + QuantitySum(key, Len(Emitted))

\* C29: a reorder emitted while the stock of the pair is below 0.3 x its
\* reorder level leaves the stock at or above the reorder level, at least
\* 1.2 x reorder level rounded down.
C29_EmergencyReorderRestores ==
    \A k \in TxIndex :
        LET reorder_level == ReorderLevel(Emitted[k].product_id)
        IN  (Emitted[k].reorder /\ 10 * Emitted[k].level_before < 3 * reorder_level) =>
                /\ LevelAfter(k) >= reorder_level
                /\ LevelAfter(k) >= (12 * reorder_level) \div 10

\* an emergency reorder was emitted for a pair that still had stock
C29_Witness ==
    \E k \in TxIndex :
        /\ Emitted[k].reorder
        /\ Emitted[k].level_before > 0
        /\ 10 * Emitted[k].level_before < 3 * ReorderLevel(Emitted[k].product_id)

\* C30: record_inventory_snapshot stores a copy: no step changes a snapshot
\* recorded earlier, and the step that records a snapshot leaves the ledger
\* unchanged and the reorder history as the rest of the iteration leaves it
\* (unchanged, but for the cleanup of every 30th day).
C30_SnapshotIsCopy ==
    [][/\ Len(inventory_history') >= Len(inventory_history)
       /\ \A k \in 1..Len(inventory_history) : inventory_history'[k] = inventory_history[k]
       /\ Len(inventory_history') > Len(inventory_history) =>
              /\ inventory_levels' = inventory_levels
              /\ reorder_history' = IF day % 30 = 0
                                    THEN cleanup_reorder_history(reorder_history, current_date)
                                    ELSE reorder_history
              /\ day % 30 # 0 => reorder_history' = reorder_history]_vars

\* two snapshots are recorded and the ledger has moved since each of them
C30_Witness ==
    /\ Len(inventory_history) >= 2
    /\ reorder_history # <<>>
    /\ \A k \in 1..Len(inventory_history) :
           \E key \in Pairs :
               inventory_history[k].inventory_levels[SnapshotKey(key)] # inventory_levels[key]

\* the requests that have their response
Answered == {c \in Connections : requests[c].pc = "done"}

\* C21: when a database statement of a request raises, the route answers
\* HTTP 500 with the message of the exception; no route reports success
\* after a statement of its request failed.
C21_StatementFailureIs500 ==
    \A c \in Answered :
        requests[c].exception.kind = "db" =>
            /\ requests[c].response.status_code = 500
            /\ requests[c].response.exception = Str(requests[c].exception)

\* C22: every route that detects a missing resource answers 404:
\* GET, PUT and DELETE /transactions/{id}, GET /products/{id},
\* GET /warehouses/{id}, and GET /otpr and GET /inventory-turnover when
\* the view returns no rows.
C22_NotFoundIs404 ==
    \A c \in Answered :
        (requests[c].exception.kind = "http" /\ requests[c].exception.status_code = 404) =>
            requests[c].response.status_code = 404

\* C23: once the status of a transaction is delivered or cancelled, no
\* step of PUT /transactions/{id}, PUT /transactions/bulk-status or
\* DELETE /transactions/{id}, in any interleaving, moves it to a status
\* that is not final.
C23_FinalStatusStays ==
    [][\A t \in DOMAIN inventory_transactions :
          inventory_transactions[t].status \in final_states =>
              inventory_transactions'[t].status \in final_states]_vars

\* C25: concurrent POST /transactions and POST /orders never try to insert
\* two rows with the same transaction_id: the MAX(transaction_id) + 1 a
\* request has read is still unused when the request inserts.
C25_NextIdUnused ==
    \A c \in Connections :
        (requests[c].route \in {"create_transaction", "create_order"}
            /\ requests[c].pc = "insert") =>
            requests[c].id \notin DOMAIN inventory_transactions

C27_RunNowOnlyWhenIdle ==
    \A c \in Clients :
        /\ ~triggers[c].active_at_run_now
        /\ (triggers[c].pc \notin {"idle", "list"} /\ triggers[c].active_at_list) =>
               /\ triggers[c].pc = "done"
               /\ triggers[c].status_code = 200
               /\ triggers[c].message = "A demo reset is already in progress"
               /\ triggers[c].run_id \in DOMAIN job_runs

\* total quantity of the orders of a pair that are not cancelled, over the
\* first k rows of the orders table
RECURSIVE OrderedQuantity(_, _)
OrderedQuantity(pair, k) ==
    IF k = 0 THEN 0
    ELSE (IF <<orders[k].product_id, orders[k].store_id>> = pair
             /\ orders[k].status # "cancelled"
          THEN orders[k].quantity ELSE 0)
             + OrderedQuantity(pair, k - 1)

====
